---- MODULE Spec2Model ----
(***************************************************************************)
(* Model of the Kalp relay SDK core: KalpRelaySDK (sdk/KalpRelaySDK.ts),   *)
(* the retry / timeout / validation utilities (utils) and the token-permit *)
(* helper (tokenTransfer).  One SDK instance, its configuration operations *)
(* and the asynchronous life of executeRelay / sendTokenTransfer calls.    *)
(***************************************************************************)
EXTENDS Integers, Sequences, FiniteSets, TLC

VARIABLES
    currentChainId,   \* KalpRelaySDK.currentChainId
    chainConfigs,     \* KalpRelaySDK.chainConfigs : chain id -> ChainConfig
    providers,        \* KalpRelaySDK.providers    : chain id -> provider
    config,           \* KalpRelaySDK.config (global defaults)
    calls,            \* in-flight executeRelay / sendTokenTransfer calls
    thrown,           \* what the last configuration call threw ("none" if nothing)
    input,            \* the argument of a direct call to a stateless helper
    output            \* what that call returned

vars == <<currentChainId, chainConfigs, providers, config, calls, thrown,
          input, output>>

----------------------------------------------------------------------------
(* Program constants                                                       *)

MAX_RETRY_ATTEMPTS == 3
INITIAL_RETRY_DELAY == 1000
BACKOFF_MULTIPLIER == 2

Sepolia == 11155111
Polygon == 137

\* chainId?: number left out by the caller (undefined)
NoChainArg == -1

(* Bounds                                                                  *)

\* largest retry.maxAttempts a caller configures
MaxAttemptsCfg == 3

----------------------------------------------------------------------------
(* Values                                                                  *)

ChainIds == {Sepolia, Polygon}

NoConfig == [absent |-> TRUE]
NoProvider == "none"

Rep(ch, n) == [i \in 1..n |-> ch]

\* The text of the address-valued inputs, as sequences of characters.
AddressNames ==
    {"relayer", "sponsorA", "sponsorB", "target", "user", "token",
     "recipient", "facilitator", "short", "nonhex", "noprefix", "empty"}

Text(a) ==
    CASE a = "relayer"     -> <<"0", "x">> \o Rep("1", 40)
      [] a = "sponsorA"    -> <<"0", "x">> \o Rep("a", 40)
      [] a = "sponsorB"    -> <<"0", "x">> \o Rep("B", 40)
      [] a = "target"      -> <<"0", "x">> \o Rep("c", 40)
      [] a = "user"        -> <<"0", "x">> \o Rep("D", 40)
      [] a = "token"       -> <<"0", "x">> \o Rep("e", 40)
      [] a = "recipient"   -> <<"0", "x">> \o Rep("F", 40)
      [] a = "facilitator" -> <<"0", "x">> \o Rep("9", 40)
      [] a = "short"       -> <<"0", "x">> \o Rep("a", 39)
      [] a = "nonhex"      -> <<"0", "x">> \o Rep("a", 39) \o <<"g">>
      [] a = "noprefix"    -> Rep("a", 42)
      [] a = "empty"       -> << >>

HexDigits ==
    {"0", "1", "2", "3", "4", "5", "6", "7", "8", "9",
     "a", "b", "c", "d", "e", "f", "A", "B", "C", "D", "E", "F"}

\* variant: the pattern is not anchored at the end
isValidAddress_NoEndAnchor(s) ==
    /\ Len(s) >= 42
    /\ s[1] = "0"
    /\ s[2] = "x"
    /\ \A i \in 3..42 : s[i] \in HexDigits

\* /^0x[a-fA-F0-9]{40}$/.test(address)
isValidAddress(s) ==
    /\ Len(s) = 42
    /\ s[1] = "0"
    /\ s[2] = "x"
    /\ \A i \in 3..42 : s[i] \in HexDigits

\* the named inputs whose text passes isValidAddress
ValidAddresses == {a \in AddressNames : isValidAddress(Text(a))}

\* isValidAddress applied to a named input
IsValid(a) == a \in ValidAddresses

\* the named inputs whose text is the empty string
EmptyTexts == {a \in AddressNames : Text(a) = << >>}

\* Number.isInteger(chainId) && chainId > 0
isValidChainId(n) == n \in Int /\ n > 0

\* no stateless helper has been called directly
NoInput == [fn |-> "none"]

NoOutput == [done |-> FALSE]

----------------------------------------------------------------------------
(* Errors (errors.ts): the fields that the code inspects                   *)

Err(name, code) == [name |-> name, code |-> code, status |-> 0]

ChainNotSupportedError == Err("ChainNotSupportedError", "CHAIN_NOT_SUPPORTED")
SignatureError == Err("SignatureError", "SIGNATURE_ERROR")
RelaySubmissionError == Err("RelaySubmissionError", "RELAY_SUBMISSION_ERROR")
RequestTimeoutError == Err("RequestTimeoutError", "REQUEST_TIMEOUT")
WalletNotConnectedError == Err("WalletNotConnectedError", "WALLET_NOT_CONNECTED")
PlainError == Err("Error", "")
\* `throw lastError` with lastError never assigned
UndefinedThrown == Err("undefined", "")
NoError == Err("none", "")

\* variant: an error matching none of the rules is not retried
shouldRetryError_DefaultNo(error) ==
    IF error.code = "ECONNRESET" \/ error.code = "ETIMEDOUT" THEN TRUE
    ELSE IF error.status # 0 THEN error.status >= 500 \/ error.status = 429
    ELSE FALSE

\* variant: every error that carries a status is retried
shouldRetryError_AnyStatus(error) ==
    IF error.code = "ECONNRESET" \/ error.code = "ETIMEDOUT" THEN TRUE
    ELSE IF error.status # 0 THEN TRUE
    ELSE IF error.code = "4001" \/ error.code = "ACTION_REJECTED" THEN FALSE
    ELSE TRUE

\* shouldRetryError(error); status 0 stands for "no error.response.status"
shouldRetryError(error) ==
    IF error.code = "ECONNRESET" \/ error.code = "ETIMEDOUT" THEN TRUE
    ELSE IF error.status # 0 THEN error.status >= 500 \/ error.status = 429
    ELSE IF error.code = "4001" \/ error.code = "ACTION_REJECTED" THEN FALSE
    ELSE TRUE

----------------------------------------------------------------------------
(* Chain configuration (KalpRelaySDK.ts, lines 144-230, 504-527)           *)

ChainConfig(id, relayer, sponsor, rpcUrl) ==
    [chainId |-> id, relayerAddress |-> relayer, sponsorAddress |-> sponsor,
     rpcUrl |-> rpcUrl]

\* the configurations a caller passes to addChainConfig ("" = no rpcUrl)
ChainConfigInputs ==
    { ChainConfig(Sepolia, "relayer", "sponsorA", ""),
      ChainConfig(Sepolia, "relayer", "sponsorB", ""),
      ChainConfig(Polygon, "relayer", "sponsorA", ""),
      ChainConfig(Polygon, "relayer", "sponsorB", "rpc1"),
      ChainConfig(0, "relayer", "sponsorA", ""),
      ChainConfig(Polygon, "short", "sponsorA", "rpc1"),
      ChainConfig(Polygon, "relayer", "nonhex", "rpc1") }

\* new ethers.JsonRpcProvider(rpcUrl)
JsonRpcProvider(rpcUrl) == rpcUrl
\* a provider object built by the caller and handed to setProvider
CallerProvider == "caller"

\* this.chainConfigs.has(chainId)
HasConfig(chainId) == chainId \in ChainIds /\ chainConfigs[chainId] # NoConfig

\* variant: the entry is stored before the input is validated
addChainConfig_StoreFirst(chainConfig) ==
    /\ chainConfigs' =
           IF chainConfig.chainId \in ChainIds
           THEN [chainConfigs EXCEPT ![chainConfig.chainId] = chainConfig]
           ELSE chainConfigs
    /\ IF \/ ~isValidChainId(chainConfig.chainId)
          \/ ~IsValid(chainConfig.relayerAddress)
          \/ ~IsValid(chainConfig.sponsorAddress)
       THEN /\ thrown' = "Error"
            /\ UNCHANGED <<currentChainId, providers, config, calls,
                           input, output>>
       ELSE /\ providers' =
                   IF chainConfig.rpcUrl # ""
                   THEN [providers EXCEPT ![chainConfig.chainId] =
                                            JsonRpcProvider(chainConfig.rpcUrl)]
                   ELSE providers
            /\ thrown' = "none"
            /\ UNCHANGED <<currentChainId, config, calls, input, output>>

addChainConfig(chainConfig) ==
    IF \/ ~isValidChainId(chainConfig.chainId)
       \/ ~IsValid(chainConfig.relayerAddress)
       \/ ~IsValid(chainConfig.sponsorAddress)
    THEN /\ thrown' = "Error"
         /\ UNCHANGED <<currentChainId, chainConfigs, providers, config, calls,
                      input, output>>
    ELSE /\ chainConfigs' =
                [chainConfigs EXCEPT ![chainConfig.chainId] = chainConfig]
         /\ providers' =
                IF chainConfig.rpcUrl # ""
                THEN [providers EXCEPT ![chainConfig.chainId] =
                                            JsonRpcProvider(chainConfig.rpcUrl)]
                ELSE providers
         /\ thrown' = "none"
         /\ UNCHANGED <<currentChainId, config, calls, input, output>>

\* variant: the active chain is not protected
removeChainConfig_NoGuard(chainId) ==
    /\ chainConfigs' = [chainConfigs EXCEPT ![chainId] = NoConfig]
    /\ thrown' = "none"
    /\ UNCHANGED <<currentChainId, providers, config, calls, input, output>>

\* variant: the entry is deleted before the active chain is looked at
removeChainConfig_DeleteFirst(chainId) ==
    /\ chainConfigs' = [chainConfigs EXCEPT ![chainId] = NoConfig]
    /\ thrown' = IF chainId = currentChainId
                 THEN "Error: Cannot remove current chain configuration"
                 ELSE "none"
    /\ UNCHANGED <<currentChainId, providers, config, calls, input, output>>

removeChainConfig(chainId) ==
    IF chainId = currentChainId
    THEN /\ thrown' = "Error: Cannot remove current chain configuration"
         /\ UNCHANGED <<currentChainId, chainConfigs, providers, config, calls,
                      input, output>>
    ELSE /\ chainConfigs' = [chainConfigs EXCEPT ![chainId] = NoConfig]
         /\ thrown' = "none"
         /\ UNCHANGED <<currentChainId, providers, config, calls, input, output>>

\* variant: the chain id is not looked up before switching
switchChain_NoCheck(chainId) ==
    /\ currentChainId' = chainId
    /\ thrown' = "none"
    /\ UNCHANGED <<chainConfigs, providers, config, calls, input, output>>

switchChain(chainId) ==
    IF ~HasConfig(chainId)
    THEN /\ thrown' = "ChainNotSupportedError"
         /\ UNCHANGED <<currentChainId, chainConfigs, providers, config, calls,
                      input, output>>
    ELSE /\ currentChainId' = chainId
         /\ thrown' = "none"
         /\ UNCHANGED <<chainConfigs, providers, config, calls, input, output>>

\* the partial configurations a caller passes to updateConfig
PartialConfigs ==
    { [field |-> "maxAttempts", value |-> n] : n \in {0, MaxAttemptsCfg} }

\* this.config = { ...this.config, ...partialConfig }
updateConfig(partialConfig) ==
    /\ config' = [config EXCEPT ![partialConfig.field] = partialConfig.value]
    /\ thrown' = "none"
    /\ UNCHANGED <<currentChainId, chainConfigs, providers, calls, input, output>>

setProvider(chainId, provider) ==
    /\ providers' = [providers EXCEPT ![chainId] = provider]
    /\ thrown' = "none"
    /\ UNCHANGED <<currentChainId, chainConfigs, config, calls, input, output>>

----------------------------------------------------------------------------
(* Relay endpoint answers and submitFn (KalpRelaySDK.ts, lines 317-373)    *)

\* status 0 stands for a fetch() that throws (no HTTP response at all)
\* the fields of a success body; "" stands for a field that is not there
BodyFields(message, txHash, blockNumber, gasUsed) ==
    [message |-> message, txHash |-> txHash, blockNumber |-> blockNumber,
     gasUsed |-> gasUsed]

NoFields == BodyFields("", "", "", "")

\* nested: the body has a `result` object, and the hash is inside it
Response(status, message, txHash, nested) ==
    [status |-> status, message |-> message,
     txHash |-> IF nested THEN "" ELSE txHash,
     blockNumber |-> "", gasUsed |-> "",
     nested |-> nested,
     result |-> IF nested THEN BodyFields("", txHash, "", "") ELSE NoFields]

SuccessBody == Response(200, "success", "0xabc", FALSE)

ServerError == Response(500, "", "", FALSE)

HttpResponses ==
    { SuccessBody,
      Response(200, "failed", "", FALSE),
      Response(400, "", "", FALSE),
      Response(429, "", "", FALSE),
      ServerError }

\* { message: 'success', result: { txHash } }
NestedSuccess == Response(200, "success", "0xdef", TRUE)

\* { result: { message: 'success', txHash } }: the whole success body
\* under `result`
WrappedSuccess ==
    [Response(200, "", "", TRUE) EXCEPT
        !.result = BodyFields("success", "0xabc", "", "")]

\* { message: 'success' } without a transaction hash
HashlessSuccess == Response(200, "success", "", FALSE)

\* { message: 'success', txHash, blockNumber, gasUsed }
FullSuccess ==
    [Response(200, "success", "0xdef", FALSE) EXCEPT
        !.blockNumber = "42", !.gasUsed = "21000"]

\* every shape of answer the endpoint gives
ResponseShapes ==
    HttpResponses
        \cup {NestedSuccess, WrappedSuccess, HashlessSuccess, FullSuccess}

\* no RelayResult (yet)
NoResult == [txHash |-> "", blockNumber |-> "", gasUsed |-> "",
             message |-> ""]

\* a || b on strings: the empty string and undefined are both falsy
Or(a, b) == IF a # "" THEN a ELSE b

\* const result = data.result || data (line 358)
ResultOrData(response) ==
    IF response.nested
    THEN response.result
    ELSE BodyFields(response.message, response.txHash,
                    response.blockNumber, response.gasUsed)

\* the RelayResult built at lines 360-365
RelayResult(response) ==
    LET result == ResultOrData(response)
    IN  [txHash |-> Or(result.txHash, response.txHash),
         blockNumber |-> Or(result.blockNumber, response.blockNumber),
         gasUsed |-> Or(result.gasUsed, response.gasUsed),
         message |-> response.message]

\* response.ok
ResponseOk(response) == response.status >= 200 /\ response.status <= 299

\* variant: the message of a 2xx body is not looked at
submitFn_NoMessageCheck(response) ==
    IF response.status = 0 \/ ~ResponseOk(response)
    THEN [ok |-> FALSE, error |-> RelaySubmissionError, result |-> NoResult]
    ELSE [ok |-> TRUE, error |-> NoError, result |-> RelayResult(response)]

\* what one run of submitFn yields for the endpoint's answer: the
\* RelayResult, or the RelaySubmissionError its catch block throws
submitFn(response) ==
    IF response.status = 0 \/ ~ResponseOk(response)
        \/ response.message # "success"
    THEN [ok |-> FALSE, error |-> RelaySubmissionError, result |-> NoResult]
    ELSE [ok |-> TRUE, error |-> NoError, result |-> RelayResult(response)]

----------------------------------------------------------------------------
(* Calls                                                                   *)

Calls == {1}

Signatures == {"0xsigA", "0xsigB"}

NoParams == [absent |-> TRUE]

RelayParams(target, data, userAddress) ==
    [target |-> target, data |-> data, userAddress |-> userAddress]

\* the requests a caller passes to executeRelay
RelayRequests ==
    { RelayParams("target", <<"0x1234">>, "user"),
      RelayParams("short", <<"0x1234">>, "user"),
      RelayParams("target", <<"0x1234">>, "nonhex"),
      RelayParams("target", <<"0x1234">>, "empty") }

ChainArgs == ChainIds \cup {NoChainArg}

\* no nonce read has answered (yet)
NoNonce == -1

\* one request to the signing backend: the primary type and the domain's
\* verifying contract and chain id
SignRequest(primaryType, verifyingContract, chainId) ==
    [primaryType |-> primaryType, verifyingContract |-> verifyingContract,
     chainId |-> chainId]

IdleCall ==
    [kind |-> "none", params |-> NoParams, tokenParams |-> NoParams,
     targetChainId |-> NoChainArg, sponsorAddress |-> "",
     pc |-> "idle", outcome |-> "none", result |-> NoResult,
     signature |-> "", signRequests |-> 0, httpRequests |-> 0,
     tokenReads |-> 0, permitRequests |-> 0,
     attempt |-> 0, maxAttempts |-> 0, delay |-> 0, responses |-> << >>,
     signTimer |-> "none", submitTimer |-> "none",
     lastPost |-> NoParams, postsAtSettle |-> 0,
     permit |-> NoParams, configuredAtStart |-> FALSE,
     nonceRead |-> NoNonce, permitSignature |-> "", asked |-> << >>,
     backendFailed |-> FALSE,
     chainAtStart |-> NoChainArg, message |-> NoParams,
     errorMessage |-> << >>, errorDetails |-> << >>,
     lateSignature |-> ""]

\* the message of the RelayRequest that is signed (lines 265-271)
RelayMessage(params, sponsorAddress, chainId) ==
    [target |-> params.target, data |-> params.data,
     user |-> params.userAddress, sponsor |-> sponsorAddress,
     chainId |-> chainId]

\* error messages, word by word
FailedToSign == <<"Failed", "to", "sign", "transaction">>

RequestTimedOut == <<"Request", "timed", "out">>

PermitSignatureFailed == <<"Permit", "signature", "failed:">>

UserRejected == <<"User", "rejected", "the", "signature", "request">>

\* what the signing backend throws
BackendErrors == {UserRejected, <<"Wallet", "is", "locked">>}

\* message.includes(word)
Includes(message, word) == \E i \in 1..Len(message) : message[i] = word

\* variant: a later settlement replaces the outcome
Settle_LastWins(call, outcome) ==
    [call EXCEPT !.outcome = outcome,
                 !.postsAtSettle = call.httpRequests]

\* the promise returned to the caller settles once; later settlements of
\* the promises racing inside it are ignored
Settle(call, outcome) ==
    IF call.outcome = "pending"
    THEN [call EXCEPT !.outcome = outcome,
                      !.postsAtSettle = call.httpRequests]
    ELSE call

\* chainId ?? this.currentChainId
ResolveChain(chainId) ==
    IF chainId = NoChainArg THEN currentChainId ELSE chainId

\* variant: the permit signature is sent as userSignature
requestPayload_PermitSignature(call) ==
    [chainId |-> call.targetChainId,
     contractAddress |-> call.params.target,
     userAddress |-> call.params.userAddress,
     data |-> call.params.data,
     userSignature |-> IF call.permitSignature # ""
                       THEN call.permitSignature ELSE call.signature,
     sponsor |-> call.sponsorAddress]

\* variant: the sponsor of the active chain is sent
requestPayload_ActiveChainSponsor(call) ==
    [chainId |-> call.targetChainId,
     contractAddress |-> call.params.target,
     userAddress |-> call.params.userAddress,
     data |-> call.params.data,
     userSignature |-> call.signature,
     sponsor |-> chainConfigs[currentChainId].sponsorAddress]

\* the request body of one POST (lines 328-335)
requestPayload(call) ==
    [chainId |-> call.targetChainId,
     contractAddress |-> call.params.target,
     userAddress |-> call.params.userAddress,
     data |-> call.params.data,
     userSignature |-> call.signature,
     sponsor |-> call.sponsorAddress]

\* variant: every attempt after the first asks for a new signature
LoopHead_ReSign(call) ==
    IF call.attempt <= call.maxAttempts
    THEN [call EXCEPT !.pc = "fetching",
                      !.httpRequests = call.httpRequests + 1,
                      !.signRequests = IF call.attempt > 1
                                       THEN call.signRequests + 1
                                       ELSE call.signRequests,
                      !.lastPost = requestPayload(call)]
    ELSE [Settle(call, "undefined") EXCEPT !.pc = "done"]

\* one pass through the head of the retry loop: the loop condition, then
\* fn() dispatching the POST (utils, lines 94-96)
LoopHead(call) ==
    IF call.attempt <= call.maxAttempts
    THEN [call EXCEPT !.pc = "fetching",
                      !.httpRequests = call.httpRequests + 1,
                      !.lastPost = requestPayload(call)]
    ELSE [Settle(call, "undefined") EXCEPT !.pc = "done"]

\* variant: the target address is not validated before signing
ExecuteRelayBegin_NoTargetCheck(call, params, chainId) ==
    LET targetChainId == ResolveChain(chainId)
        c0 == [call EXCEPT !.params = params,
                           !.targetChainId = targetChainId,
                           !.outcome = "pending"]
        fail(e) == [Settle(c0, e) EXCEPT !.pc = "done"]
    IN  IF ~HasConfig(targetChainId) THEN fail("ChainNotSupportedError")
        ELSE LET sponsorAddress == chainConfigs[targetChainId].sponsorAddress
             IN  IF params.userAddress \in EmptyTexts
                     THEN fail("WalletNotConnectedError")
                 ELSE IF ~IsValid(params.userAddress)
                     THEN fail("Error")
                 ELSE IF ~IsValid(sponsorAddress)
                     THEN fail("Error")
                 ELSE [c0 EXCEPT
                         !.sponsorAddress = sponsorAddress,
                         !.pc = "signing",
                         !.signRequests = c0.signRequests + 1,
                         !.message = RelayMessage(params, sponsorAddress,
                                                  targetChainId),
                         !.asked = Append(c0.asked,
                             SignRequest("RelayRequest",
                                 chainConfigs[targetChainId].relayerAddress,
                                 targetChainId)),
                         !.signTimer = "pending"]

\* variant: a chain id without configuration falls back to the active chain
ExecuteRelayBegin_FallbackChain(call, params, chainId) ==
    LET resolved == ResolveChain(chainId)
        targetChainId == IF HasConfig(resolved) THEN resolved
                         ELSE currentChainId
        c0 == [call EXCEPT !.params = params,
                           !.targetChainId = targetChainId,
                           !.outcome = "pending"]
        fail(e) == [Settle(c0, e) EXCEPT !.pc = "done"]
    IN  IF ~HasConfig(targetChainId) THEN fail("ChainNotSupportedError")
        ELSE LET sponsorAddress == chainConfigs[targetChainId].sponsorAddress
             IN  IF params.userAddress \in EmptyTexts
                     THEN fail("WalletNotConnectedError")
                 ELSE IF ~IsValid(params.target)
                     THEN fail("Error")
                 ELSE IF ~IsValid(params.userAddress)
                     THEN fail("Error")
                 ELSE IF ~IsValid(sponsorAddress)
                     THEN fail("Error")
                 ELSE [c0 EXCEPT
                         !.sponsorAddress = sponsorAddress,
                         !.pc = "signing",
                         !.signRequests = c0.signRequests + 1,
                         !.message = RelayMessage(params, sponsorAddress,
                                                  targetChainId),
                         !.asked = Append(c0.asked,
                             SignRequest("RelayRequest",
                                 chainConfigs[targetChainId].relayerAddress,
                                 targetChainId)),
                         !.signTimer = "pending"]

\* variant: the POST is dispatched without waiting for the signature
ExecuteRelayBegin_SubmitBeforeSign(call, params, chainId) ==
    LET targetChainId == ResolveChain(chainId)
        c0 == [call EXCEPT !.params = params,
                           !.targetChainId = targetChainId,
                           !.outcome = "pending"]
        fail(e) == [Settle(c0, e) EXCEPT !.pc = "done"]
    IN  IF ~HasConfig(targetChainId) THEN fail("ChainNotSupportedError")
        ELSE LET sponsorAddress == chainConfigs[targetChainId].sponsorAddress
             IN  IF params.userAddress \in EmptyTexts
                     THEN fail("WalletNotConnectedError")
                 ELSE IF ~IsValid(params.target)
                     THEN fail("Error")
                 ELSE IF ~IsValid(params.userAddress)
                     THEN fail("Error")
                 ELSE IF ~IsValid(sponsorAddress)
                     THEN fail("Error")
                 ELSE [c0 EXCEPT
                         !.sponsorAddress = sponsorAddress,
                         !.pc = "signing",
                         !.signRequests = c0.signRequests + 1,
                         !.message = RelayMessage(params, sponsorAddress,
                                                  targetChainId),
                         !.asked = Append(c0.asked,
                             SignRequest("RelayRequest",
                                 chainConfigs[targetChainId].relayerAddress,
                                 targetChainId)),
                         !.httpRequests = c0.httpRequests + 1,
                         !.signTimer = "pending"]

\* executeRelay up to its first suspension (lines 415-426 and 236-291)
ExecuteRelayBegin(call, params, chainId) ==
    LET targetChainId == ResolveChain(chainId)
        c0 == [call EXCEPT !.params = params,
                           !.targetChainId = targetChainId,
                           !.outcome = "pending"]
        fail(e) == [Settle(c0, e) EXCEPT !.pc = "done"]
    IN  IF ~HasConfig(targetChainId) THEN fail("ChainNotSupportedError")
        ELSE LET sponsorAddress == chainConfigs[targetChainId].sponsorAddress
             IN  IF params.userAddress \in EmptyTexts
                     THEN fail("WalletNotConnectedError")
                 ELSE IF ~IsValid(params.target)
                     THEN fail("Error")
                 ELSE IF ~IsValid(params.userAddress)
                     THEN fail("Error")
                 ELSE IF ~IsValid(sponsorAddress)
                     THEN fail("Error")
                 ELSE [c0 EXCEPT
                         !.sponsorAddress = sponsorAddress,
                         !.pc = "signing",
                         !.signRequests = c0.signRequests + 1,
                         !.message = RelayMessage(params, sponsorAddress,
                                                  targetChainId),
                         !.asked = Append(c0.asked,
                             SignRequest("RelayRequest",
                                 chainConfigs[targetChainId].relayerAddress,
                                 targetChainId)),
                         !.signTimer = "pending"]

\* variant: the sponsor is looked up again when the submission starts
SubmitRelayRequestBegin_RereadSponsor(call) ==
    IF ~HasConfig(call.targetChainId)
    THEN [Settle(call, "ChainNotSupportedError") EXCEPT !.pc = "done"]
    ELSE LET c1 == [call EXCEPT
                        !.attempt = 1,
                        !.maxAttempts = config.maxAttempts,
                        !.delay = INITIAL_RETRY_DELAY,
                        !.sponsorAddress =
                            chainConfigs[call.targetChainId].sponsorAddress,
                        !.submitTimer = "pending"]
         IN  LoopHead(c1)

\* submitRelayRequest up to its first suspension (lines 313-315, 375-385)
SubmitRelayRequestBegin(call) ==
    IF ~HasConfig(call.targetChainId)
    THEN [Settle(call, "ChainNotSupportedError") EXCEPT !.pc = "done"]
    ELSE LET c1 == [call EXCEPT !.attempt = 1,
                                !.maxAttempts = config.maxAttempts,
                                !.delay = INITIAL_RETRY_DELAY,
                                !.submitTimer = "pending"]
         IN  LoopHead(c1)

CallFree(c) == calls[c].pc \in {"idle", "done"}

\* variant: the call makes its target chain the active one
executeRelay_SwitchesChain(c, params, chainId) ==
    /\ CallFree(c)
    /\ calls' = [calls EXCEPT ![c] =
          ExecuteRelayBegin(
              [IdleCall EXCEPT
                  !.kind = "executeRelay",
                  !.configuredAtStart = HasConfig(ResolveChain(chainId)),
                  !.chainAtStart = ResolveChain(chainId)],
              params, chainId)]
    /\ currentChainId' = IF HasConfig(ResolveChain(chainId))
                         THEN ResolveChain(chainId) ELSE currentChainId
    /\ UNCHANGED <<chainConfigs, providers, config, thrown, input, output>>

executeRelay(c, params, chainId) ==
    /\ CallFree(c)
    /\ calls' = [calls EXCEPT ![c] =
          ExecuteRelayBegin(
              [IdleCall EXCEPT
                  !.kind = "executeRelay",
                  !.configuredAtStart = HasConfig(ResolveChain(chainId)),
                  !.chainAtStart = ResolveChain(chainId)],
              params, chainId)]
    /\ UNCHANGED <<currentChainId, chainConfigs, providers, config, thrown,
                 input, output>>

----------------------------------------------------------------------------
(* Token transfer (KalpRelaySDK.ts 555-654, tokenTransfer 101-292)         *)

\* deadline?: number left out by the caller (undefined)
NoDeadline == -1

ONE_HOUR_IN_SECONDS == 3600

\* Math.floor(Date.now() / 1000) at the moment the deadline is computed
ClockReadings == {1700000000}

\* the nonces the token contract reports for the owner
Nonces == {5}

\* the owner's nonce as it moves on between reads
OwnerNonces == {5, 6}

\* what the signing backend returns for a permit
PermitSignatures == {"0xpermitA", "0xpermitB"}

TokenParams(token, recipient, amount, user, facilitator, deadline) ==
    [tokenAddress |-> token, recipient |-> recipient, amount |-> amount,
     userAddress |-> user, facilitatorAddress |-> facilitator,
     deadline |-> deadline]

\* the requests a caller passes to sendTokenTransfer
TokenRequests ==
    { TokenParams("token", "recipient", 1000000, "user", "facilitator",
                  NoDeadline),
      TokenParams("short", "recipient", 1000000, "user", "facilitator",
                  NoDeadline),
      TokenParams("token", "nonhex", 1000000, "user", "facilitator",
                  NoDeadline),
      TokenParams("token", "recipient", 1000000, "noprefix", "facilitator",
                  NoDeadline),
      TokenParams("token", "recipient", 1000000, "user", "short",
                  NoDeadline),
      TokenParams("token", "recipient", 0, "user", "facilitator",
                  NoDeadline),
      TokenParams("token", "recipient", -1, "user", "facilitator",
                  NoDeadline) }

\* the token requests of the end-to-end runs: also a deadline of the
\* caller's own, and the deadline 0
TransferRequests ==
    TokenRequests
        \cup { TokenParams("token", "recipient", 1000000, "user",
                           "facilitator", 1700009999),
               TokenParams("token", "recipient", 1000000, "user",
                           "facilitator", 0) }

\* if (customDeadline) return it; else now + one hour
calculateDeadline(customDeadline, now) ==
    IF customDeadline # NoDeadline /\ customDeadline # 0
    THEN customDeadline
    ELSE now + ONE_HOUR_IN_SECONDS

\* ethers.Signature.from(signature): the three components of a signature
SplitSignature(signature) ==
    [v |-> <<"v", signature>>, r |-> <<"r", signature>>,
     s |-> <<"s", signature>>]

\* variant: recipient and owner change places
encodeFacilitatorCall_RecipientFirst(params, permitSignature, deadline) ==
    <<"facilitateTransferWithPermit", params.tokenAddress, params.recipient,
      params.owner, params.amount, deadline,
      permitSignature.v, permitSignature.r, permitSignature.s>>

\* the argument list handed to encodeFunctionData, in order
encodeFacilitatorCall(params, permitSignature, deadline) ==
    <<"facilitateTransferWithPermit", params.tokenAddress, params.owner,
      params.recipient, params.amount, deadline,
      permitSignature.v, permitSignature.r, permitSignature.s>>

\* this.providers.get(targetChainId), undefined when absent
GetProvider(chainId) ==
    IF chainId \in ChainIds THEN providers[chainId] ELSE NoProvider

\* the message of the Error thrown by getProvider (lines 519-524)
NoProviderConfigured(chainId) ==
    <<"No", "provider", "configured", "for", "chain", ToString(chainId),
      "Please", "set", "an", "RPC", "URL", "in", "chain", "config", "or",
      "call", "setProvider()">>

\* variant: the amount is not checked
SendTokenTransferBegin_NoAmountCheck(call, params, chainId) ==
    LET targetChainId == ResolveChain(chainId)
        c0 == [call EXCEPT !.tokenParams = params,
                           !.targetChainId = targetChainId,
                           !.outcome = "pending"]
        fail(e) == [Settle(c0, e) EXCEPT !.pc = "done"]
    IN  IF ~IsValid(params.tokenAddress) THEN fail("Error")
        ELSE IF ~IsValid(params.recipient) THEN fail("Error")
        ELSE IF ~IsValid(params.userAddress) THEN fail("Error")
        ELSE IF ~IsValid(params.facilitatorAddress)
            THEN fail("Error")
        ELSE IF GetProvider(targetChainId) = NoProvider
            THEN [fail("Error") EXCEPT
                     !.errorMessage = NoProviderConfigured(targetChainId)]
        ELSE [c0 EXCEPT !.pc = "reading", !.tokenReads = c0.tokenReads + 1]

\* variant: the reads are started without looking for the connection
SendTokenTransferBegin_NoProviderCheck(call, params, chainId) ==
    LET targetChainId == ResolveChain(chainId)
        c0 == [call EXCEPT !.tokenParams = params,
                           !.targetChainId = targetChainId,
                           !.outcome = "pending"]
        fail(e) == [Settle(c0, e) EXCEPT !.pc = "done"]
    IN  IF ~IsValid(params.tokenAddress) THEN fail("Error")
        ELSE IF ~IsValid(params.recipient) THEN fail("Error")
        ELSE IF ~IsValid(params.userAddress) THEN fail("Error")
        ELSE IF ~IsValid(params.facilitatorAddress)
            THEN fail("Error")
        ELSE IF params.amount <= 0 THEN fail("Error")
        ELSE [c0 EXCEPT !.pc = "reading", !.tokenReads = c0.tokenReads + 1]

\* sendTokenTransfer up to its first suspension (lines 559-600)
SendTokenTransferBegin(call, params, chainId) ==
    LET targetChainId == ResolveChain(chainId)
        c0 == [call EXCEPT !.tokenParams = params,
                           !.targetChainId = targetChainId,
                           !.outcome = "pending"]
        fail(e) == [Settle(c0, e) EXCEPT !.pc = "done"]
    IN  IF ~IsValid(params.tokenAddress) THEN fail("Error")
        ELSE IF ~IsValid(params.recipient) THEN fail("Error")
        ELSE IF ~IsValid(params.userAddress) THEN fail("Error")
        ELSE IF ~IsValid(params.facilitatorAddress)
            THEN fail("Error")
        ELSE IF params.amount <= 0 THEN fail("Error")
        ELSE IF GetProvider(targetChainId) = NoProvider
            THEN [fail("Error") EXCEPT
                     !.errorMessage = NoProviderConfigured(targetChainId)]
        ELSE [c0 EXCEPT !.pc = "reading", !.tokenReads = c0.tokenReads + 1]

sendTokenTransfer(c, params, chainId) ==
    /\ CallFree(c)
    /\ calls' = [calls EXCEPT ![c] =
          SendTokenTransferBegin(
              [IdleCall EXCEPT
                  !.kind = "sendTokenTransfer",
                  !.configuredAtStart = HasConfig(ResolveChain(chainId)),
                  !.chainAtStart = ResolveChain(chainId)],
              params, chainId)]
    /\ UNCHANGED <<currentChainId, chainConfigs, providers, config, thrown,
                 input, output>>

\* variant: the permit carries the nonce of an earlier read
TokenReadsResolve_CachedNonce(c, nonce, now) ==
    /\ calls[c].pc = "reading"
    /\ LET params == calls[c].tokenParams
           deadline == calculateDeadline(params.deadline, now)
       IN  calls' = [calls EXCEPT ![c] =
             [calls[c] EXCEPT
                 !.pc = "permitSigning",
                 !.permitRequests = calls[c].permitRequests + 1,
                 !.nonceRead = nonce,
                 !.asked = Append(calls[c].asked,
                     SignRequest("Permit", params.tokenAddress,
                                 calls[c].targetChainId)),
                 !.permit = [owner |-> params.userAddress,
                             spender |-> params.facilitatorAddress,
                             value |-> params.amount,
                             nonce |-> CHOOSE n \in Nonces : TRUE,
                             deadline |-> deadline]]]
    /\ UNCHANGED <<currentChainId, chainConfigs, providers, config, thrown,
                 input, output>>

\* name(), version() and nonces(owner) have answered: the deadline is
\* computed and the permit is handed to the signing backend (lines 597-623,
\* tokenTransfer 192-222)
TokenReadsResolve(c, nonce, now) ==
    /\ calls[c].pc = "reading"
    /\ LET params == calls[c].tokenParams
           deadline == calculateDeadline(params.deadline, now)
       IN  calls' = [calls EXCEPT ![c] =
             [calls[c] EXCEPT
                 !.pc = "permitSigning",
                 !.permitRequests = calls[c].permitRequests + 1,
                 !.nonceRead = nonce,
                 !.asked = Append(calls[c].asked,
                     SignRequest("Permit", params.tokenAddress,
                                 calls[c].targetChainId)),
                 !.permit = [owner |-> params.userAddress,
                             spender |-> params.facilitatorAddress,
                             value |-> params.amount,
                             nonce |-> nonce,
                             deadline |-> deadline]]]
    /\ UNCHANGED <<currentChainId, chainConfigs, providers, config, thrown,
                 input, output>>

\* a token read fails: getTokenDomain / getTokenNonce rethrow an Error
TokenReadsReject(c) ==
    /\ calls[c].pc = "reading"
    /\ calls' = [calls EXCEPT ![c] =
          [Settle(calls[c], "Error") EXCEPT !.pc = "done"]]
    /\ UNCHANGED <<currentChainId, chainConfigs, providers, config, thrown,
                 input, output>>

\* the signing backend answers the permit request: the signature is split,
\* the facilitator call encoded and executeRelay entered (lines 625-648)
PermitSignResolve(c, signature) ==
    /\ calls[c].pc = "permitSigning"
    /\ LET params == calls[c].tokenParams
           data == encodeFacilitatorCall(
                      [tokenAddress |-> params.tokenAddress,
                       owner |-> params.userAddress,
                       recipient |-> params.recipient,
                       amount |-> params.amount],
                      SplitSignature(signature), calls[c].permit.deadline)
       IN  calls' = [calls EXCEPT ![c] =
             ExecuteRelayBegin(
                 [calls[c] EXCEPT !.permitSignature = signature],
                 RelayParams(params.facilitatorAddress, data,
                             params.userAddress),
                 calls[c].targetChainId)]
    /\ UNCHANGED <<currentChainId, chainConfigs, providers, config, thrown,
                 input, output>>

\* the signing backend throws or rejects the permit request
\* (tokenTransfer 233-236)
PermitSignReject(c, message) ==
    /\ calls[c].pc = "permitSigning"
    /\ calls' = [calls EXCEPT ![c] =
          [Settle(calls[c], "Error") EXCEPT
              !.pc = "done", !.backendFailed = TRUE,
              !.errorMessage = PermitSignatureFailed \o message,
              !.errorDetails = << >>]]
    /\ UNCHANGED <<currentChainId, chainConfigs, providers, config, thrown,
                 input, output>>

----------------------------------------------------------------------------
(* The relay-authorization signature and the submission loop               *)

\* the signing backend answers with a signature
SignResolve(c, signature) ==
    /\ calls[c].pc = "signing"
    /\ calls' = [calls EXCEPT ![c] =
          SubmitRelayRequestBegin([calls[c] EXCEPT !.signature = signature])]
    /\ UNCHANGED <<currentChainId, chainConfigs, providers, config, thrown,
                 input, output>>

\* the signing backend throws or rejects (lines 294-300)
SignReject(c, message) ==
    /\ calls[c].pc = "signing"
    /\ calls' = [calls EXCEPT ![c] =
          [Settle(calls[c], "SignatureError") EXCEPT
              !.pc = "done", !.backendFailed = TRUE,
              !.errorMessage = FailedToSign,
              !.errorDetails = message]]
    /\ UNCHANGED <<currentChainId, chainConfigs, providers, config, thrown,
                 input, output>>

\* the timer of withTimeout around signTypedData fires first; the
\* RequestTimeoutError is caught at line 294 and rethrown at line 297
SignTimeout(c) ==
    /\ calls[c].pc = "signing"
    /\ calls[c].signTimer = "pending"
    /\ calls' = [calls EXCEPT ![c] =
          [Settle(calls[c], "SignatureError") EXCEPT
              !.pc = "done", !.signTimer = "fired",
              !.errorMessage = FailedToSign,
              !.errorDetails = RequestTimedOut]]
    /\ UNCHANGED <<currentChainId, chainConfigs, providers, config, thrown,
                 input, output>>

\* the signing backend answers after the timer of withTimeout has decided
\* the race: the promise it resolves has no one waiting for it
SignatureArrivesLate(c, signature) ==
    /\ calls[c].signTimer = "fired"
    /\ calls[c].lateSignature = ""
    /\ calls' = [calls EXCEPT ![c] =
          [calls[c] EXCEPT !.lateSignature = signature]]
    /\ UNCHANGED <<currentChainId, chainConfigs, providers, config, thrown,
                   input, output>>

\* the endpoint answers the POST in flight; the retry loop goes on
\* (utils, lines 96-115)
HttpRespond(c, response) ==
    /\ calls[c].pc = "fetching"
    /\ LET call == [calls[c] EXCEPT
                        !.responses = Append(calls[c].responses, response)]
           r == submitFn(response)
       IN  calls' = [calls EXCEPT ![c] =
             IF r.ok
             THEN [Settle(call, "resolved") EXCEPT
                      !.pc = "done",
                      !.result = IF call.outcome = "pending"
                                 THEN r.result ELSE call.result]
             ELSE IF call.attempt = call.maxAttempts
                     \/ ~shouldRetryError(r.error)
             THEN [Settle(call, r.error.name) EXCEPT !.pc = "done"]
             ELSE [call EXCEPT !.pc = "sleeping"]]
    /\ UNCHANGED <<currentChainId, chainConfigs, providers, config, thrown,
                 input, output>>

\* the backoff sleep ends: delay *= backoffMultiplier, attempt++, loop head
SleepFire(c) ==
    /\ calls[c].pc = "sleeping"
    /\ calls' = [calls EXCEPT ![c] =
          LoopHead([calls[c] EXCEPT
                       !.delay = calls[c].delay * BACKOFF_MULTIPLIER,
                       !.attempt = calls[c].attempt + 1])]
    /\ UNCHANGED <<currentChainId, chainConfigs, providers, config, thrown,
                 input, output>>

\* the timer of withTimeout around retryWithBackoff fires (utils, 129-134)
\* while the race is undecided: the call is rejected, the retry loop is
\* left running.  Once the race is decided the timer's reject is a no-op.
SubmitTimeout(c) ==
    /\ calls[c].submitTimer = "pending"
    /\ calls[c].outcome = "pending"
    /\ calls' = [calls EXCEPT ![c] =
          [Settle(calls[c], "RequestTimeoutError") EXCEPT
              !.submitTimer = "fired"]]
    /\ UNCHANGED <<currentChainId, chainConfigs, providers, config, thrown,
                 input, output>>

----------------------------------------------------------------------------
(* Specification                                                           *)

Init ==
    /\ currentChainId = Sepolia
    /\ chainConfigs =
          [id \in ChainIds |->
              IF id = Sepolia
              THEN ChainConfig(Sepolia, "relayer", "sponsorA", "")
              ELSE NoConfig]
    /\ providers = [id \in ChainIds |-> NoProvider]
    /\ config = [maxAttempts |-> MAX_RETRY_ATTEMPTS]
    /\ calls = [c \in Calls |-> IdleCall]
    /\ thrown = "none"
    /\ input = NoInput
    /\ output = NoOutput

Next ==
    \/ \E chainConfig \in ChainConfigInputs : addChainConfig(chainConfig)
    \/ \E chainId \in ChainIds : removeChainConfig(chainId)
    \/ \E chainId \in ChainIds : switchChain(chainId)
    \/ \E partialConfig \in PartialConfigs : updateConfig(partialConfig)
    \/ setProvider(Polygon, CallerProvider)
    \/ \E c \in Calls, params \in RelayRequests, chainId \in ChainArgs :
          executeRelay(c, params, chainId)
    \/ \E c \in Calls, params \in TokenRequests, chainId \in ChainArgs :
          sendTokenTransfer(c, params, chainId)
    \/ \E c \in Calls, nonce \in Nonces, now \in ClockReadings :
          TokenReadsResolve(c, nonce, now)
    \/ \E c \in Calls : TokenReadsReject(c)
    \/ \E c \in Calls : PermitSignResolve(c, "0xpermit")
    \/ \E c \in Calls : PermitSignReject(c, UserRejected)
    \/ \E c \in Calls : SignResolve(c, "0xsigA")
    \/ \E c \in Calls : SignReject(c, UserRejected)
    \/ \E c \in Calls : SignTimeout(c)
    \/ \E c \in Calls, response \in {SuccessBody, ServerError} :
          HttpRespond(c, response)
    \/ \E c \in Calls : SleepFire(c)
    \/ \E c \in Calls : SubmitTimeout(c)

Spec == Init /\ [][Next]_vars

\* The submission pipeline alone: one SDK instance whose configuration stays
\* as constructed, with every kind of answer from the relay endpoint.
InitRelay ==
    /\ currentChainId = Sepolia
    /\ chainConfigs =
          [id \in ChainIds |->
              IF id = Sepolia
              THEN ChainConfig(Sepolia, "relayer", "sponsorA", "")
              ELSE NoConfig]
    /\ providers = [id \in ChainIds |-> NoProvider]
    /\ config \in [maxAttempts : 0..MaxAttemptsCfg]
    /\ calls = [c \in Calls |-> IdleCall]
    /\ thrown = "none"
    /\ input = NoInput
    /\ output = NoOutput

NextRelay ==
    \/ \E c \in Calls, params \in RelayRequests, chainId \in ChainArgs :
          executeRelay(c, params, chainId)
    \/ \E c \in Calls, signature \in Signatures : SignResolve(c, signature)
    \/ \E c \in Calls : SignReject(c, UserRejected)
    \/ \E c \in Calls : SignTimeout(c)
    \/ \E c \in Calls, response \in HttpResponses : HttpRespond(c, response)
    \/ \E c \in Calls : SleepFire(c)
    \/ \E c \in Calls : SubmitTimeout(c)

SpecRelay == InitRelay /\ [][NextRelay]_vars

----------------------------------------------------------------------------
(* Wallet signers (walletSigners.ts): message values and prepareValue      *)

\* JavaScript values, tagged with what typeof / Array.isArray tell
Big(n) == [t |-> "bigint", n |-> n]

Num(n) == [t |-> "number", n |-> n]

\* s: the characters of the string
Str(s) == [t |-> "string", s |-> s]

Obj(keys, vals) == [t |-> "object", keys |-> keys, vals |-> vals]

Arr(vals) == [t |-> "array", vals |-> vals]

HexDigitChars ==
    <<"0", "1", "2", "3", "4", "5", "6", "7", "8", "9",
      "a", "b", "c", "d", "e", "f">>

\* n.toString(16) for n >= 0, digit by digit
RECURSIVE ToString16(_)
ToString16(n) ==
    IF n < 16 THEN <<HexDigitChars[n + 1]>>
    ELSE Append(ToString16(n \div 16), HexDigitChars[(n % 16) + 1])

\* the keys `for (const key in value)` enumerates
KeysOf(value) ==
    IF value.t = "array"
    THEN [i \in 1..Len(value.vals) |-> ToString(i - 1)]
    ELSE value.keys

\* prepareValue (lines 15-27): typeof value === 'object' holds for arrays
\* as well, and the result is always built from {}
RECURSIVE prepareValue(_)
prepareValue(value) ==
    IF value.t = "bigint"
    THEN Str(<<"0", "x">> \o ToString16(value.n))
    ELSE IF value.t \in {"object", "array"}
    THEN Obj(KeysOf(value),
             [i \in 1..Len(value.vals) |-> prepareValue(value.vals[i])])
    ELSE value

Adapters ==
    {"createMetaMaskSigner", "createEthersSigner", "createEip1193Signer"}

\* the message an adapter hands to the underlying signing call
\* (lines 74, 131, 186)
HandedOver(adapter, message) ==
    IF adapter = "createEthersSigner" THEN message
    ELSE prepareValue(message)

\* the messages given to the adapters
Messages ==
    { Obj(<<"target", "data", "user", "sponsor", "chainId">>,
          <<Str(<<"target">>), Str(<<"0x1234">>), Str(<<"user">>),
            Str(<<"sponsorA">>), Big(Sepolia)>>),
      Obj(<<"owner", "spender", "value", "nonce", "deadline">>,
          <<Str(<<"user">>), Str(<<"facilitator">>), Big(1000000), Big(5),
            Big(1700003600)>>),
      Obj(<<"order", "memo">>,
          <<Obj(<<"amount", "fee">>, <<Big(255), Big(0)>>),
            Str(<<"memo">>)>>),
      Obj(<<"amounts">>, <<Arr(<<Big(1), Big(4096)>>)>>),
      Obj(<<"note", "count">>, <<Str(<<"note">>), Num(7)>>),
      Obj(<<"nonce">>, <<Big(16)>>) }

----------------------------------------------------------------------------
(* The stateless helpers called directly                                   *)

ErrorCodes ==
    {"", "ECONNRESET", "ETIMEDOUT", "4001", "ACTION_REJECTED",
     "RELAY_SUBMISSION_ERROR"}

\* error.response.status; 0: the error carries none
ErrorStatuses == {0, 400, 404, 429, 500, 502, 503}

ErrorInputs ==
    { [name |-> "Error", code |-> code, status |-> status] :
          code \in ErrorCodes, status \in ErrorStatuses }

CustomDeadlines == {NoDeadline, 0, 1, 1700009999}

Clock == {1700000000, 1700000001}

\* the strings isValidAddress is asked about: the named inputs, and
\* mixed case, one digit too many, an upper-case prefix, a leading blank,
\* a line break at the end, a non-hex character in the middle
AddressTexts ==
    { Text(a) : a \in AddressNames }
    \cup { <<"0", "x">> \o Rep("a", 20) \o Rep("F", 20),
           <<"0", "x">> \o Rep("a", 41),
           <<"0", "X">> \o Rep("a", 40),
           <<" ", "0", "x">> \o Rep("a", 40),
           <<"0", "x">> \o Rep("a", 40) \o <<"\n">>,
           <<"0", "x">> \o Rep("a", 10) \o <<"z">> \o Rep("a", 29),
           <<"0", "x">> }

HelperInputs ==
    { [fn |-> "shouldRetryError", error |-> e] : e \in ErrorInputs }
    \cup { [fn |-> "isValidAddress", address |-> s] : s \in AddressTexts }
    \cup { [fn |-> "calculateDeadline", customDeadline |-> d, now |-> n] :
              d \in CustomDeadlines, n \in Clock }
    \cup { [fn |-> "signTypedData", adapter |-> a, message |-> m] :
              a \in Adapters, m \in Messages }

Returned(value) == [done |-> TRUE, value |-> value]

ApplyShouldRetryError ==
    /\ input.fn = "shouldRetryError"
    /\ ~output.done
    /\ output' = Returned(shouldRetryError(input.error))
    /\ UNCHANGED <<currentChainId, chainConfigs, providers, config, calls,
                   thrown, input>>

ApplyCalculateDeadline ==
    /\ input.fn = "calculateDeadline"
    /\ ~output.done
    /\ output' = Returned(calculateDeadline(input.customDeadline, input.now))
    /\ UNCHANGED <<currentChainId, chainConfigs, providers, config, calls,
                   thrown, input>>

ApplyIsValidAddress ==
    /\ input.fn = "isValidAddress"
    /\ ~output.done
    /\ output' = Returned(isValidAddress(input.address))
    /\ UNCHANGED <<currentChainId, chainConfigs, providers, config, calls,
                   thrown, input>>

\* one of the adapters is asked to sign input.message
ApplySigner ==
    /\ input.fn = "signTypedData"
    /\ ~output.done
    /\ output' = Returned(HandedOver(input.adapter, input.message))
    /\ UNCHANGED <<currentChainId, chainConfigs, providers, config, calls,
                   thrown, input>>

InitHelpers ==
    /\ currentChainId = Sepolia
    /\ chainConfigs =
          [id \in ChainIds |->
              IF id = Sepolia
              THEN ChainConfig(Sepolia, "relayer", "sponsorA", "")
              ELSE NoConfig]
    /\ providers = [id \in ChainIds |-> NoProvider]
    /\ config = [maxAttempts |-> MAX_RETRY_ATTEMPTS]
    /\ calls = [c \in Calls |-> IdleCall]
    /\ thrown = "none"
    /\ input \in HelperInputs
    /\ output = NoOutput

NextHelpers ==
    \/ ApplyShouldRetryError
    \/ ApplyIsValidAddress
    \/ ApplyCalculateDeadline
    \/ ApplySigner

SpecHelpers == InitHelpers /\ [][NextHelpers]_vars

----------------------------------------------------------------------------
(* Two sendTokenTransfer calls in flight on one instance, for the same     *)
(* token and the same owner                                                *)

TwoCalls == {1, 2}

OverlapRequest ==
    TokenParams("token", "recipient", 1000000, "user", "facilitator",
                NoDeadline)

\* nonces(owner) of the token contract when the first call starts
FirstNonce == 5

\* the permits of the owner that the token contract has consumed: those of
\* the calls whose submission the relay has answered with success
Consumed ==
    { c \in DOMAIN calls :
         /\ calls[c].kind = "sendTokenTransfer"
         /\ \E i \in 1..Len(calls[c].responses) :
                submitFn(calls[c].responses[i]).ok }

\* what tokenContract.nonces(ownerAddress) answers now (tokenTransfer 117)
OnChainNonce == FirstNonce + Cardinality(Consumed)

InitOverlap ==
    /\ currentChainId = Sepolia
    /\ chainConfigs =
          [id \in ChainIds |->
              IF id = Sepolia
              THEN ChainConfig(Sepolia, "relayer", "sponsorA", "")
              ELSE ChainConfig(Polygon, "relayer", "sponsorB", "rpc1")]
    /\ providers =
          [id \in ChainIds |->
              IF id = Polygon THEN JsonRpcProvider("rpc1") ELSE NoProvider]
    /\ config = [maxAttempts |-> 1]
    /\ calls = [c \in TwoCalls |-> IdleCall]
    /\ thrown = "none"
    /\ input = NoInput
    /\ output = NoOutput

NextOverlap ==
    \/ \E c \in TwoCalls :
          /\ calls[c].pc = "idle"
          /\ sendTokenTransfer(c, OverlapRequest, Polygon)
    \/ \E c \in TwoCalls, now \in ClockReadings :
          TokenReadsResolve(c, OnChainNonce, now)
    \/ \E c \in TwoCalls : TokenReadsReject(c)
    \/ \E c \in TwoCalls : PermitSignResolve(c, "0xpermitA")
    \/ \E c \in TwoCalls : PermitSignReject(c, UserRejected)
    \/ \E c \in TwoCalls : SignResolve(c, "0xsigA")
    \/ \E c \in TwoCalls : SignReject(c, UserRejected)
    \/ \E c \in TwoCalls : SignTimeout(c)
    \/ \E c \in TwoCalls, response \in {FullSuccess, ServerError} :
          HttpRespond(c, response)
    \/ \E c \in TwoCalls : SubmitTimeout(c)

SpecOverlap == InitOverlap /\ [][NextOverlap]_vars

----------------------------------------------------------------------------
(* One call of either operation under the assumption that timers fire:     *)
(* the timers of withTimeout (utils 129-134) and of sleep (utils 140-142)  *)
(* are the only steps that are bound to happen; the signing backend, the   *)
(* token contract and the relay endpoint may stay silent for ever          *)

InitTimers ==
    /\ currentChainId = Sepolia
    /\ chainConfigs =
          [id \in ChainIds |->
              IF id = Sepolia
              THEN ChainConfig(Sepolia, "relayer", "sponsorA", "")
              ELSE ChainConfig(Polygon, "relayer", "sponsorB", "rpc1")]
    /\ providers =
          [id \in ChainIds |->
              IF id = Polygon THEN JsonRpcProvider("rpc1") ELSE NoProvider]
    /\ config \in [maxAttempts : {1, 2}]
    /\ calls = [c \in Calls |-> IdleCall]
    /\ thrown = "none"
    /\ input = NoInput
    /\ output = NoOutput

\* the steps a timer takes
TimerFires ==
    \/ \E c \in Calls : SignTimeout(c)
    \/ \E c \in Calls : SleepFire(c)
    \/ \E c \in Calls : SubmitTimeout(c)

NextTimers ==
    \/ \E c \in Calls, params \in RelayRequests, chainId \in ChainArgs :
          /\ calls[c].pc = "idle"
          /\ executeRelay(c, params, chainId)
    \/ \E c \in Calls, params \in TokenRequests, chainId \in ChainArgs :
          /\ calls[c].pc = "idle"
          /\ sendTokenTransfer(c, params, chainId)
    \/ \E c \in Calls, nonce \in Nonces, now \in ClockReadings :
          TokenReadsResolve(c, nonce, now)
    \/ \E c \in Calls : TokenReadsReject(c)
    \/ \E c \in Calls : PermitSignResolve(c, "0xpermitA")
    \/ \E c \in Calls : PermitSignReject(c, UserRejected)
    \/ \E c \in Calls : SignResolve(c, "0xsigA")
    \/ \E c \in Calls : SignReject(c, UserRejected)
    \/ \E c \in Calls : SignatureArrivesLate(c, "0xsigA")
    \/ \E c \in Calls, response \in {SuccessBody, ServerError} :
          HttpRespond(c, response)
    \/ TimerFires

SpecTimers ==
    InitTimers /\ [][NextTimers]_vars /\ WF_vars(TimerFires)

----------------------------------------------------------------------------
(* retryWithBackoff (utils, lines 75-119) on its own: any fn, any           *)
(* classifier                                                              *)

\* what fn does at one invocation: it returns, or it throws an error that
\* shouldRetry accepts, or one that shouldRetry refuses
FnOutcomes == {"ok", "retryable", "fatal"}

RetryScripts == [1..MaxAttemptsCfg -> FnOutcomes]

RetryInputs ==
    { [fn |-> "retryWithBackoff", maxAttempts |-> n, initialDelay |-> d,
       backoffMultiplier |-> m, script |-> sc] :
          n \in 0..MaxAttemptsCfg,
          d \in {INITIAL_RETRY_DELAY, 250},
          m \in {BACKOFF_MULTIPLIER, 3},
          sc \in RetryScripts }

\* the error thrown by the k-th invocation of fn
FnError(k, outcome) == [attempt |-> k, retryable |-> outcome = "retryable"]

\* lastError before any catch: undefined
NoFnError == [attempt |-> 0, retryable |-> FALSE]

\* shouldRetry(error) of the caller
shouldRetry(error) == error.retryable

\* the loop condition and, inside the loop, the call of fn (lines 94-96);
\* after the loop, throw lastError (line 118)
RetryLoopHead(st) ==
    IF st.attempt <= input.maxAttempts
    THEN [st EXCEPT !.pc = "calling", !.invocations = st.invocations + 1]
    ELSE [st EXCEPT !.pc = "thrown", !.done = TRUE, !.thrown = st.lastError]

\* retryWithBackoff is called (lines 84-94)
RetryWithBackoffStart ==
    /\ input.fn = "retryWithBackoff"
    /\ output = NoOutput
    /\ output' = RetryLoopHead(
          [done |-> FALSE, pc |-> "start", attempt |-> 1,
           delay |-> input.initialDelay, invocations |-> 0,
           waits |-> << >>, lastError |-> NoFnError, thrown |-> NoFnError])
    /\ UNCHANGED <<currentChainId, chainConfigs, providers, config, calls,
                   thrown, input>>

\* variant: the classifier is not asked
RetryFnSettles_IgnoreClassifier ==
    /\ input.fn = "retryWithBackoff"
    /\ output # NoOutput
    /\ output.pc = "calling"
    /\ LET outcome == input.script[output.invocations]
           error == FnError(output.attempt, outcome)
       IN  output' =
             IF outcome = "ok"
             THEN [output EXCEPT !.pc = "returned", !.done = TRUE]
             ELSE IF output.attempt = input.maxAttempts
             THEN [output EXCEPT !.pc = "thrown", !.done = TRUE,
                                 !.lastError = error, !.thrown = error]
             ELSE [output EXCEPT !.pc = "sleeping", !.lastError = error,
                                 !.waits = Append(output.waits, output.delay)]
    /\ UNCHANGED <<currentChainId, chainConfigs, providers, config, calls,
                   thrown, input>>

\* fn settles: return, or the catch block up to its throw or its sleep
\* (lines 96-111)
RetryFnSettles ==
    /\ input.fn = "retryWithBackoff"
    /\ output # NoOutput
    /\ output.pc = "calling"
    /\ LET outcome == input.script[output.invocations]
           error == FnError(output.attempt, outcome)
       IN  output' =
             IF outcome = "ok"
             THEN [output EXCEPT !.pc = "returned", !.done = TRUE]
             ELSE IF output.attempt = input.maxAttempts \/ ~shouldRetry(error)
             THEN [output EXCEPT !.pc = "thrown", !.done = TRUE,
                                 !.lastError = error, !.thrown = error]
             ELSE [output EXCEPT !.pc = "sleeping", !.lastError = error,
                                 !.waits = Append(output.waits, output.delay)]
    /\ UNCHANGED <<currentChainId, chainConfigs, providers, config, calls,
                   thrown, input>>

\* variant: the delay is not multiplied
RetrySleepEnds_ConstantDelay ==
    /\ input.fn = "retryWithBackoff"
    /\ output # NoOutput
    /\ output.pc = "sleeping"
    /\ output' = RetryLoopHead(
          [output EXCEPT !.attempt = output.attempt + 1])
    /\ UNCHANGED <<currentChainId, chainConfigs, providers, config, calls,
                   thrown, input>>

\* the sleep ends: delay *= backoffMultiplier, attempt++ (lines 111-114, 94)
RetrySleepEnds ==
    /\ input.fn = "retryWithBackoff"
    /\ output # NoOutput
    /\ output.pc = "sleeping"
    /\ output' = RetryLoopHead(
          [output EXCEPT !.delay = output.delay * input.backoffMultiplier,
                         !.attempt = output.attempt + 1])
    /\ UNCHANGED <<currentChainId, chainConfigs, providers, config, calls,
                   thrown, input>>

InitRetry ==
    /\ currentChainId = Sepolia
    /\ chainConfigs =
          [id \in ChainIds |->
              IF id = Sepolia
              THEN ChainConfig(Sepolia, "relayer", "sponsorA", "")
              ELSE NoConfig]
    /\ providers = [id \in ChainIds |-> NoProvider]
    /\ config = [maxAttempts |-> MAX_RETRY_ATTEMPTS]
    /\ calls = [c \in Calls |-> IdleCall]
    /\ thrown = "none"
    /\ input \in RetryInputs
    /\ output = NoOutput

NextRetry ==
    \/ RetryWithBackoffStart
    \/ RetryFnSettles
    \/ RetrySleepEnds

SpecRetry == InitRetry /\ [][NextRetry]_vars

\* Both operations end to end on an instance constructed with two chains
\* (Sepolia as the default chain, Polygon with an rpcUrl among `chains`), the
\* configuration left as constructed: every shape of answer, two values for
\* each signature and for the owner's nonce.
InitTransfer ==
    /\ currentChainId = Sepolia
    /\ chainConfigs =
          [id \in ChainIds |->
              IF id = Sepolia
              THEN ChainConfig(Sepolia, "relayer", "sponsorA", "")
              ELSE ChainConfig(Polygon, "relayer", "sponsorB", "rpc1")]
    /\ providers =
          [id \in ChainIds |->
              IF id = Polygon THEN JsonRpcProvider("rpc1") ELSE NoProvider]
    /\ config \in [maxAttempts : 0..MaxAttemptsCfg]
    /\ calls = [c \in Calls |-> IdleCall]
    /\ thrown = "none"
    /\ input = NoInput
    /\ output = NoOutput

NextTransfer ==
    \/ \E c \in Calls, params \in RelayRequests, chainId \in ChainArgs :
          executeRelay(c, params, chainId)
    \/ \E c \in Calls, params \in TransferRequests, chainId \in ChainArgs :
          sendTokenTransfer(c, params, chainId)
    \/ \E c \in Calls, nonce \in OwnerNonces, now \in ClockReadings :
          TokenReadsResolve(c, nonce, now)
    \/ \E c \in Calls : TokenReadsReject(c)
    \/ \E c \in Calls, signature \in PermitSignatures :
          PermitSignResolve(c, signature)
    \/ \E c \in Calls, message \in BackendErrors :
          PermitSignReject(c, message)
    \/ \E c \in Calls, signature \in Signatures : SignResolve(c, signature)
    \/ \E c \in Calls, message \in BackendErrors : SignReject(c, message)
    \/ \E c \in Calls : SignTimeout(c)
    \/ \E c \in Calls, signature \in Signatures :
          SignatureArrivesLate(c, signature)
    \/ \E c \in Calls, response \in ResponseShapes :
          HttpRespond(c, response)
    \/ \E c \in Calls : SleepFire(c)
    \/ \E c \in Calls : SubmitTimeout(c)

SpecTransfer == InitTransfer /\ [][NextTransfer]_vars

----------------------------------------------------------------------------
(* Properties                                                              *)

\* an answer that is not a success: non-2xx status, or a body whose
\* message is not 'success'
IsFailureAnswer(r) ==
    r.status < 200 \/ r.status > 299 \/ r.message # "success"

\* a status the retry classification of the specification retries
IsRetryableStatus(status) == status >= 500 \/ status = 429

Last(seq) == seq[Len(seq)]

\* C1: when the first submission attempt is answered with a non-2xx status
\* below 500 other than 429 (and the outer timeout has not fired), exactly
\* one POST is sent and the call is rejected with RelaySubmissionError.
C1_NoRetryOnClientError ==
    \A c \in Calls :
        ( /\ Len(calls[c].responses) >= 1
          /\ calls[c].responses[1].status >= 300
          /\ calls[c].responses[1].status < 500
          /\ calls[c].responses[1].status # 429
          /\ calls[c].submitTimer # "fired" )
        => /\ calls[c].httpRequests = 1
           /\ calls[c].outcome = "RelaySubmissionError"

\* C2: k < maxAttempts retryable failures followed by a success give
\* exactly k+1 POSTs and a call resolved with the success result (as long as
\* the outer timeout has not fired): the call is not given up on while
\* retryable failures leave attempts, and nothing is sent after the success.
C2_RetryThenSuccess ==
    \A c \in Calls :
        LET call == calls[c]
            n == Len(call.responses)
        IN  /\ ( /\ n >= 1
                 /\ ~IsFailureAnswer(Last(call.responses))
                 /\ call.submitTimer # "fired" )
               => /\ call.outcome = "resolved"
                  /\ call.result = RelayResult(Last(call.responses))
                  /\ call.result.message = "success"
                  /\ call.httpRequests = n
                  /\ call.pc = "done"
            /\ ( /\ call.outcome = "RelaySubmissionError"
                 /\ \A i \in 1..n :
                       IsRetryableStatus(call.responses[i].status) )
               => n = call.maxAttempts

\* C2 witness: maxAttempts 3, answers 500, 500, success: three POSTs, resolved
C2_Witness ==
    \E c \in Calls :
        /\ calls[c].maxAttempts = MAX_RETRY_ATTEMPTS
        /\ Len(calls[c].responses) = 3
        /\ calls[c].responses[1].status = 500
        /\ calls[c].responses[2].status = 500
        /\ calls[c].responses[3] = SuccessBody
        /\ calls[c].httpRequests = 3
        /\ calls[c].outcome = "resolved"

\* C3: the number of POSTs of a call never exceeds the configured
\* maxAttempts (the value its retry loop was started with), and a call whose attempts have all failed, with
\* the retry loop over and the outer timeout not fired, is rejected with
\* RelaySubmissionError; a call is resolved only after a success answer.
C3_BoundedAttempts ==
    \A c \in Calls :
        LET call == calls[c]
            n == Len(call.responses)
        IN  /\ call.httpRequests <= call.maxAttempts
            /\ call.httpRequests <= config.maxAttempts
            /\ ( /\ call.pc = "done"
                 /\ n >= 1
                 /\ \A i \in 1..n : IsFailureAnswer(call.responses[i])
                 /\ call.submitTimer # "fired" )
               => call.outcome = "RelaySubmissionError"
            /\ call.outcome = "resolved"
               => n >= 1 /\ ~IsFailureAnswer(Last(call.responses))

\* C3 witness: every one of the maxAttempts >= 2 attempts failed
C3_Witness ==
    \E c \in Calls :
        /\ calls[c].pc = "done"
        /\ calls[c].maxAttempts >= 2
        /\ calls[c].httpRequests = calls[c].maxAttempts
        /\ Len(calls[c].responses) = calls[c].maxAttempts
        /\ \A i \in 1..Len(calls[c].responses) :
              IsFailureAnswer(calls[c].responses[i])
        /\ calls[c].outcome = "RelaySubmissionError"

\* C4: when the signing timeout fires before the signing backend answers,
\* the call is rejected with RequestTimeoutError.
C4_SigningTimeoutError ==
    \A c \in Calls :
        calls[c].signTimer = "fired"
        => calls[c].outcome = "RequestTimeoutError"

\* C5: once the outer timeout has rejected the call with
\* RequestTimeoutError, no further POST is dispatched for that call.
C5_NoAttemptAfterTimeout ==
    \A c \in Calls :
        calls[c].outcome = "RequestTimeoutError"
        => calls[c].httpRequests = calls[c].postsAtSettle

\* C6: an executeRelay call with a malformed target or userAddress fails
\* with no signature requested and no POST sent.
C6_MalformedAddressFailsFast ==
    \A c \in Calls :
        ( /\ calls[c].kind = "executeRelay"
          /\ \/ ~IsValid(calls[c].params.target)
             \/ ~IsValid(calls[c].params.userAddress) )
        => /\ calls[c].signRequests = 0
           /\ calls[c].httpRequests = 0
           /\ calls[c].pc = "done"
           /\ calls[c].outcome \notin {"none", "pending", "resolved"}

\* C6 witness: a malformed target on a configured chain was rejected
C6_Witness ==
    \E c \in Calls :
        /\ calls[c].kind = "executeRelay"
        /\ calls[c].params.target = "short"
        /\ HasConfig(calls[c].targetChainId)
        /\ calls[c].outcome = "Error"
        /\ calls[c].signRequests = 0

\* C7: an executeRelay call whose resolved chain id (the argument, else the
\* active chain) has no configuration entry is rejected at once with
\* ChainNotSupportedError, with no signature requested and no POST sent.
C7_UnconfiguredChainRejected ==
    \A c \in Calls :
        ( /\ calls[c].kind = "executeRelay"
          /\ ~calls[c].configuredAtStart )
        => /\ calls[c].outcome = "ChainNotSupportedError"
           /\ calls[c].pc = "done"
           /\ calls[c].signRequests = 0
           /\ calls[c].httpRequests = 0

\* C7 witness: executeRelay on the unconfigured chain was rejected
C7_Witness ==
    \E c \in Calls :
        /\ calls[c].kind = "executeRelay"
        /\ calls[c].pc = "done"
        /\ ~calls[c].configuredAtStart
        /\ calls[c].targetChainId = Polygon
        /\ calls[c].outcome = "ChainNotSupportedError"
        /\ calls[c].signRequests = 0

\* C8: a sendTokenTransfer call whose resolved chain id has no configuration
\* entry fails at once: no token read is started and no permit signature is
\* requested.
C8_TokenTransferUnconfiguredChain ==
    \A c \in Calls :
        ( /\ calls[c].kind = "sendTokenTransfer"
          /\ ~calls[c].configuredAtStart )
        => /\ calls[c].outcome = "ChainNotSupportedError"
           /\ calls[c].pc = "done"
           /\ calls[c].tokenReads = 0
           /\ calls[c].permitRequests = 0

\* C9: the active chain id always has an entry in the configuration map.
C9_ActiveChainConfigured == HasConfig(currentChainId)

\* C9 witness: the active chain was switched and the initial chain removed
C9_Witness ==
    /\ currentChainId = Polygon
    /\ chainConfigs[Sepolia] = NoConfig
    /\ \E c \in Calls : calls[c].pc = "done"

\* C10: switchChain(id) with an unconfigured id throws
\* ChainNotSupportedError and leaves the active chain unchanged; with a
\* configured id it makes id the active chain; in both cases the
\* configuration map, the connection cache, the global defaults and the
\* calls in flight are unchanged.
C10_SwitchChain ==
    [][ \A id \in ChainIds :
          switchChain(id)
          => /\ IF chainConfigs[id] = NoConfig
                THEN /\ thrown' = "ChainNotSupportedError"
                     /\ currentChainId' = currentChainId
                ELSE /\ thrown' = "none"
                     /\ currentChainId' = id
             /\ UNCHANGED <<chainConfigs, providers, config, calls, input, output>> ]_vars

\* C10 witness: after a successful switch to Polygon, a switch to the
\* removed chain was refused
C10_Witness ==
    /\ thrown = "ChainNotSupportedError"
    /\ currentChainId = Polygon
    /\ chainConfigs[Sepolia] = NoConfig

\* C11: removeChainConfig(id) with id the active chain throws and leaves
\* the configuration map, the active chain id and everything else unchanged.
C11_RemoveActiveChainFails ==
    [][ \A id \in ChainIds :
          ( removeChainConfig(id) /\ id = currentChainId )
          => /\ thrown' = "Error: Cannot remove current chain configuration"
             /\ UNCHANGED <<chainConfigs, currentChainId, providers, config,
                            calls, input, output>> ]_vars

\* C11 witness: the removal of the active chain Polygon was refused
C11_Witness ==
    /\ thrown = "Error: Cannot remove current chain configuration"
    /\ currentChainId = Polygon
    /\ chainConfigs[Polygon] # NoConfig

\* C12: a sendTokenTransfer call with a zero or negative amount fails at
\* once: no token read is started, no signature (permit or relay) is
\* requested and no POST is sent.
C12_NonPositiveAmountFailsFast ==
    \A c \in Calls :
        ( /\ calls[c].kind = "sendTokenTransfer"
          /\ calls[c].tokenParams.amount <= 0 )
        => /\ calls[c].pc = "done"
           /\ calls[c].outcome \notin {"none", "pending", "resolved"}
           /\ calls[c].tokenReads = 0
           /\ calls[c].permitRequests = 0
           /\ calls[c].signRequests = 0
           /\ calls[c].httpRequests = 0

\* C12 witness: amount 0 was rejected on a chain that has a read connection
C12_Witness ==
    \E c \in Calls :
        /\ calls[c].kind = "sendTokenTransfer"
        /\ calls[c].tokenParams.amount = 0
        /\ GetProvider(calls[c].targetChainId) # NoProvider
        /\ calls[c].outcome = "Error"
        /\ calls[c].tokenReads = 0

\* C13: every sendTokenTransfer call that has asked for the permit
\* signature did one nonce read of its own before, and the permit carries
\* exactly the nonce that read returned; a call that is still reading holds
\* no nonce and no permit from before.
C13_FreshNonce ==
    \A c \in Calls :
        calls[c].kind = "sendTokenTransfer"
        => /\ calls[c].permitRequests >= 1
              => /\ calls[c].tokenReads = 1
                 /\ calls[c].nonceRead # NoNonce
                 /\ calls[c].permit.nonce = calls[c].nonceRead
           /\ calls[c].pc = "reading"
              => /\ calls[c].nonceRead = NoNonce
                 /\ calls[c].permit = NoParams

\* C13 witness: the read returned 6 and the permit handed to the signing
\* backend carries 6
C13_Witness ==
    \E c \in Calls :
        /\ calls[c].kind = "sendTokenTransfer"
        /\ calls[c].pc = "permitSigning"
        /\ calls[c].nonceRead = 6
        /\ calls[c].permit.nonce = 6

\* C14: no POST is sent before the relay signature has resolved; within a
\* sendTokenTransfer call the steps come in order: token reads answered,
\* permit signature requested and resolved, relay signature requested and
\* resolved, first POST.
C14_StepOrder ==
    \A c \in Calls :
        LET call == calls[c]
        IN  /\ call.httpRequests >= 1
               => call.signature # "" /\ call.signRequests = 1
            /\ call.pc = "signing" => call.httpRequests = 0
            /\ call.kind = "sendTokenTransfer"
               => /\ call.pc = "reading"
                     => /\ call.permitRequests = 0
                        /\ call.signRequests = 0
                        /\ call.httpRequests = 0
                  /\ call.permitRequests >= 1
                     => call.tokenReads = 1 /\ call.nonceRead # NoNonce
                  /\ call.pc = "permitSigning"
                     => call.signRequests = 0 /\ call.httpRequests = 0
                  /\ call.signRequests >= 1
                     => /\ call.permitRequests = 1
                        /\ call.permitSignature # ""

\* C14 witness: a token transfer that went through every step and resolved
C14_Witness ==
    \E c \in Calls :
        /\ calls[c].kind = "sendTokenTransfer"
        /\ calls[c].outcome = "resolved"
        /\ calls[c].httpRequests = 2
        /\ calls[c].permitSignature = "0xpermitB"
        /\ calls[c].signature = "0xsigA"

\* C15: a call asks the signing backend for the relay signature at most
\* once however many POSTs it sends, every POST carries that one signature,
\* and a signing failure ends the call after its single signing request
\* with no POST.
C15_SignedOnce ==
    \A c \in Calls :
        LET call == calls[c]
        IN  /\ call.signRequests <= 1
            /\ Cardinality({i \in 1..Len(call.asked) :
                  call.asked[i].primaryType = "RelayRequest"}) <= 1
            /\ call.lastPost # NoParams
               => /\ call.lastPost.userSignature = call.signature
                  /\ call.signature \in Signatures
            /\ call.outcome = "SignatureError"
               => /\ call.pc = "done"
                  /\ call.signRequests = 1
                  /\ call.httpRequests = 0

\* C15 witness: three POSTs of one executeRelay call, one signing request
C15_Witness ==
    \E c \in Calls :
        /\ calls[c].kind = "executeRelay"
        /\ calls[c].httpRequests = 3
        /\ calls[c].signRequests = 1
        /\ calls[c].lastPost.userSignature = "0xsigB"

\* C16: in a sendTokenTransfer call that has sent a POST, the signing
\* backend was asked exactly twice: first for a Permit under the token's
\* domain, then for a RelayRequest under the relay contract's domain; the
\* userSignature of the POST is the answer to the RelayRequest, and v, r, s
\* in the facilitator call data come from the answer to the Permit.
C16_SignaturesNotConflated ==
    \A c \in Calls :
        LET call == calls[c]
        IN  ( call.kind = "sendTokenTransfer" /\ call.httpRequests >= 1 )
            => /\ call.asked =
                    << SignRequest("Permit", call.tokenParams.tokenAddress,
                                   call.targetChainId),
                       SignRequest("RelayRequest",
                           chainConfigs[call.targetChainId].relayerAddress,
                           call.targetChainId) >>
               /\ call.signature \in Signatures
               /\ call.permitSignature \in PermitSignatures
               /\ call.lastPost.userSignature = call.signature
               /\ call.lastPost.data[7] = SplitSignature(call.permitSignature).v
               /\ call.lastPost.data[8] = SplitSignature(call.permitSignature).r
               /\ call.lastPost.data[9] = SplitSignature(call.permitSignature).s

\* C16 witness: a token transfer whose POST is out, permit signed with
\* 0xpermitA and relay request with 0xsigB
C16_Witness ==
    \E c \in Calls :
        /\ calls[c].kind = "sendTokenTransfer"
        /\ calls[c].pc = "fetching"
        /\ calls[c].permitSignature = "0xpermitA"
        /\ calls[c].lastPost.userSignature = "0xsigB"
        /\ Len(calls[c].asked) = 2

C18_SigningFailuresTyped ==
    \A c \in Calls :
        calls[c].backendFailed => calls[c].outcome = "SignatureError"

\* C19: a resolved call was answered last with a 2xx status and message
\* 'success', and its result carries a transaction hash and the message
\* 'success'.
C19_NoSuccessShapeOnFailure ==
    \A c \in Calls :
        LET call == calls[c]
        IN  call.outcome = "resolved"
            => /\ Len(call.responses) >= 1
               /\ ResponseOk(Last(call.responses))
               /\ call.result.message = "success"
               /\ call.result.txHash # ""

\* a 2xx body with message 'success' and a transaction hash, either at top
\* level or all under `result`
IsSuccessBody(r) ==
    /\ ResponseOk(r)
    /\ \/ ~r.nested /\ r.message = "success" /\ r.txHash # ""
       \/ r.nested /\ r.result.message = "success" /\ r.result.txHash # ""

\* the transaction hash such a body carries
CarriedHash(r) == IF r.nested THEN r.result.txHash ELSE r.txHash

\* C20: an answer carrying the success fields at top level, or the same
\* fields under `result`, resolves the call with that transaction hash
\* (as long as the outer timeout has not fired); a non-2xx answer, or one
\* whose message is not 'success' in either place, never resolves it.
C20_BothShapesAccepted ==
    \A c \in Calls :
        LET call == calls[c]
            n == Len(call.responses)
        IN  ( n >= 1 /\ call.submitTimer # "fired" )
            => /\ IsSuccessBody(Last(call.responses))
                  => /\ call.outcome = "resolved"
                     /\ call.result.txHash = CarriedHash(Last(call.responses))
               /\ ( \/ ~ResponseOk(Last(call.responses))
                    \/ /\ Last(call.responses).message # "success"
                       /\ Last(call.responses).result.message # "success" )
                  => call.outcome # "resolved"

\* C21: while a call that was rejected with RequestTimeoutError goes on
\* running, no later answer changes its outcome or its result; and a call
\* whose signing timer has fired never sends a POST, also when the
\* signature arrives afterwards.
C21_TimedOutStaysRejected ==
    [][ \A c \in Calls :
          /\ ( /\ calls[c].outcome = "RequestTimeoutError"
               /\ calls[c].pc # "done" )
             => /\ calls'[c].outcome = "RequestTimeoutError"
                /\ calls'[c].result = calls[c].result
          /\ calls'[c].signTimer = "fired"
             => calls'[c].httpRequests = 0 /\ calls'[c].pc = "done" ]_vars

\* C21 witness: the success answer came in after the outer timeout had
\* rejected the call; the call is still rejected
C21_Witness ==
    \E c \in Calls :
        /\ calls[c].outcome = "RequestTimeoutError"
        /\ calls[c].pc = "done"
        /\ Len(calls[c].responses) >= 1
        /\ Last(calls[c].responses) = SuccessBody
        /\ calls[c].result = NoResult

C23_TimersTornDown ==
    \A c \in Calls :
        ( /\ calls[c].kind = "executeRelay"
          /\ calls[c].outcome \notin {"none", "pending"} )
        => /\ calls[c].signTimer # "pending"
           /\ calls[c].submitTimer # "pending"
           /\ calls[c].pc # "sleeping"

\* C24: a chain's connection, once in the cache, is never replaced, and
\* only addChainConfig changes the cache.
C24_ConnectionCreatedOnce ==
    [][ /\ \A id \in ChainIds :
              providers[id] # NoProvider => providers'[id] = providers[id]
        /\ providers' # providers
           => \E chainConfig \in ChainConfigInputs :
                 addChainConfig(chainConfig) ]_vars

\* C27: when the user rejects the relay signature request of an
\* executeRelay call, the call is rejected with a SignatureError whose
\* message contains 'rejected'.
C27_RejectionMessage ==
    \A c \in Calls :
        ( /\ calls[c].kind = "executeRelay"
          /\ calls[c].backendFailed
          /\ calls[c].errorDetails = UserRejected )
        => /\ calls[c].outcome = "SignatureError"
           /\ Includes(calls[c].errorMessage, "rejected")

\* C28: the permit handed to the signing backend has the nonce read, the
\* requested amount as value, owner = userAddress, spender =
\* facilitatorAddress and the computed deadline; the facilitator call data
\* lists token, owner, recipient, amount, that same deadline, v, r, s in
\* this order; executeRelay is entered with target = facilitatorAddress,
\* that call data, and the chain resolved at the start.
C28_PermitAndCallData ==
    \A c \in Calls :
        LET call == calls[c]
            tp == call.tokenParams
            sig == SplitSignature(call.permitSignature)
        IN  ( call.kind = "sendTokenTransfer" /\ call.permitRequests >= 1 )
            => /\ call.permit.nonce = call.nonceRead
               /\ call.permit.value = tp.amount
               /\ call.permit.owner = tp.userAddress
               /\ call.permit.spender = tp.facilitatorAddress
               /\ \E now \in ClockReadings :
                     call.permit.deadline = calculateDeadline(tp.deadline, now)
               /\ call.permitSignature # ""
                  => /\ call.params =
                          RelayParams(tp.facilitatorAddress,
                              << "facilitateTransferWithPermit",
                                 tp.tokenAddress, tp.userAddress,
                                 tp.recipient, tp.amount,
                                 call.permit.deadline, sig.v, sig.r, sig.s >>,
                              tp.userAddress)
                     /\ call.targetChainId = call.chainAtStart
                     /\ call.message # NoParams
                        => call.message.chainId = call.chainAtStart

\* C28 witness: nonce 6, a deadline of the caller's own, POST in flight
C28_Witness ==
    \E c \in Calls :
        /\ calls[c].kind = "sendTokenTransfer"
        /\ calls[c].pc = "fetching"
        /\ calls[c].nonceRead = 6
        /\ calls[c].tokenParams.deadline = 1700009999
        /\ calls[c].params.data[6] = 1700009999
        /\ calls[c].lastPost.contractAddress = "facilitator"

TransportCodes == {"ECONNRESET", "ETIMEDOUT"}

RejectionCodes == {"4001", "ACTION_REJECTED"}

\* C25: shouldRetryError, rule by rule in the order given: an error with
\* code ECONNRESET or ETIMEDOUT is retryable; otherwise an error carrying a
\* response status is retryable iff the status is >= 500 or 429; an error
\* matching no rule (no transport code, no status, no rejection code) is
\* retryable.
C25_RetryClassification ==
    ( input.fn = "shouldRetryError" /\ output.done )
    => LET e == input.error
       IN  /\ e.code \in TransportCodes => output.value = TRUE
           /\ ( e.code \notin TransportCodes /\ e.status # 0 )
              => output.value = (e.status >= 500 \/ e.status = 429)
           /\ ( /\ e.code \notin TransportCodes
                /\ e.status = 0
                /\ e.code \notin RejectionCodes )
              => output.value = TRUE

\* C25 witness: an error with status 400 and no code was classified as
\* not retryable
C25_Witness ==
    /\ input.fn = "shouldRetryError"
    /\ input.error.status = 400
    /\ input.error.code = ""
    /\ output.done
    /\ output.value = FALSE

\* C26: an error with code 4001 or ACTION_REJECTED is classified as not
\* retryable, whatever else it carries.
C26_RejectionNeverRetried ==
    ( /\ input.fn = "shouldRetryError"
      /\ output.done
      /\ input.error.code \in RejectionCodes )
    => output.value = FALSE

\* the digits read as a hexadecimal number
RECURSIVE HexValue(_)
HexValue(digits) ==
    IF Len(digits) = 0 THEN 0
    ELSE 16 * HexValue(SubSeq(digits, 1, Len(digits) - 1))
         + (CHOOSE d \in 0..15 : HexDigitChars[d + 1] = digits[Len(digits)])

\* s is "0x" followed by hexadecimal digits that denote n
IsHexOf(s, n) ==
    /\ Len(s) >= 3
    /\ s[1] = "0" /\ s[2] = "x"
    /\ \A i \in 3..Len(s) : \E d \in 1..16 : HexDigitChars[d] = s[i]
    /\ HexValue(SubSeq(s, 3, Len(s))) = n

\* handed has the shape of original, every integer replaced by its
\* hexadecimal string and every other leaf as it was
RECURSIVE SameShapeHex(_, _)
SameShapeHex(original, handed) ==
    IF original.t = "bigint"
    THEN handed.t = "string" /\ IsHexOf(handed.s, original.n)
    ELSE IF original.t = "object"
    THEN /\ handed.t = "object"
         /\ handed.keys = original.keys
         /\ Len(handed.vals) = Len(original.vals)
         /\ \A i \in 1..Len(original.vals) :
               SameShapeHex(original.vals[i], handed.vals[i])
    ELSE IF original.t = "array"
    THEN /\ handed.t = "array"
         /\ Len(handed.vals) = Len(original.vals)
         /\ \A i \in 1..Len(original.vals) :
               SameShapeHex(original.vals[i], handed.vals[i])
    ELSE handed = original

\* C29: whichever of the three adapters signs, the message handed to the
\* underlying signing call has the shape of the given message, with every
\* large integer replaced by the hexadecimal string denoting it and every
\* other leaf unchanged.
C29_IntegersToHex ==
    ( input.fn = "signTypedData" /\ output.done )
    => SameShapeHex(input.message, output.value)

\* C30: calculateDeadline returns the custom deadline whenever one is
\* provided, 0 included, and the current time plus 3600 otherwise.
C30_CustomDeadlineKept ==
    ( input.fn = "calculateDeadline" /\ output.done )
    => output.value = IF input.customDeadline # NoDeadline
                      THEN input.customDeadline
                      ELSE input.now + ONE_HOUR_IN_SECONDS

\* the characters a hexadecimal digit may be, in either case
HexCharsEitherCase ==
    {HexDigitChars[i] : i \in 1..16} \cup {"A", "B", "C", "D", "E", "F"}

\* C31: isValidAddress returns true exactly for the strings of 42
\* characters that are 0x followed by 40 hexadecimal digits of either case;
\* every other string (too short, too long, a non-hex character, no prefix)
\* gets false.
C31_AddressFormat ==
    ( input.fn = "isValidAddress" /\ output.done )
    => LET s == input.address
       IN  /\ output.value = TRUE
              <=> /\ Len(s) = 42
                  /\ SubSeq(s, 1, 2) = <<"0", "x">>
                  /\ \A i \in 3..Len(s) : s[i] \in HexCharsEitherCase
           /\ Len(s) < 42 => output.value = FALSE
           /\ Len(s) > 42 => output.value = FALSE

\* C31 witness: a mixed-case address was accepted
C31_Witness ==
    /\ input.fn = "isValidAddress"
    /\ input.address = <<"0", "x">> \o Rep("a", 20) \o Rep("F", 20)
    /\ output.done
    /\ output.value = TRUE

\* C32: when shouldRetry refuses the error of attempt k, fn has been
\* invoked exactly k times, no sleep follows that attempt, and that very
\* error is what retryWithBackoff throws, however many attempts remain.
C32_ClassifierObeyed ==
    ( input.fn = "retryWithBackoff" /\ output # NoOutput )
    => \A k \in 1..output.invocations :
          ( input.script[k] = "fatal" /\ (k < output.invocations
                                          \/ output.pc # "calling") )
          => /\ output.invocations = k
             /\ output.done
             /\ output.pc = "thrown"
             /\ output.thrown = FnError(k, "fatal")
             /\ Len(output.waits) = k - 1

\* C32 witness: refused at attempt 2 of 3: two invocations, one sleep
C32_Witness ==
    /\ input.fn = "retryWithBackoff"
    /\ input.maxAttempts = MAX_RETRY_ATTEMPTS
    /\ input.script[1] = "retryable"
    /\ input.script[2] = "fatal"
    /\ output # NoOutput
    /\ output.done
    /\ output.invocations = 2
    /\ Len(output.waits) = 1

\* b to the power e
RECURSIVE Power(_, _)
Power(b, e) == IF e = 0 THEN 1 ELSE b * Power(b, e - 1)

\* C33: the wait between failed attempt k and attempt k+1 is
\* initialDelay * backoffMultiplier^(k-1), there is one wait between every
\* two attempts, and none after the last failed attempt.
C33_BackoffDelays ==
    ( input.fn = "retryWithBackoff" /\ output # NoOutput )
    => /\ \A k \in 1..Len(output.waits) :
             output.waits[k] =
                input.initialDelay * Power(input.backoffMultiplier, k - 1)
       /\ output.pc = "sleeping"
          => /\ Len(output.waits) = output.invocations
             /\ output.invocations < input.maxAttempts
       /\ output.pc # "sleeping" /\ output.invocations >= 1
          => Len(output.waits) = output.invocations - 1

\* C33 witness: the defaults, three failed attempts: waits of 1000 and 2000
C33_Witness ==
    /\ input.fn = "retryWithBackoff"
    /\ input.maxAttempts = MAX_RETRY_ATTEMPTS
    /\ output # NoOutput
    /\ output.pc = "thrown"
    /\ output.invocations = 3
    /\ output.waits = <<1000, 2000>>

\* C34: addChainConfig with a chain id that is not a positive integer, or
\* with a malformed relayer or sponsor address, throws and leaves the
\* configuration map, the connection cache and the active chain as they
\* were; with valid input it replaces the whole entry of that chain id and
\* leaves the entries of the other chains as they were.
C34_AddChainConfigAtomic ==
    [][ \A cfg \in ChainConfigInputs :
          addChainConfig(cfg)
          => IF \/ cfg.chainId <= 0
                \/ ~isValidAddress(Text(cfg.relayerAddress))
                \/ ~isValidAddress(Text(cfg.sponsorAddress))
             THEN /\ thrown' = "Error"
                  /\ UNCHANGED <<chainConfigs, providers, currentChainId>>
             ELSE /\ thrown' = "none"
                  /\ chainConfigs'[cfg.chainId] = cfg
                  /\ \A id \in ChainIds \ {cfg.chainId} :
                        chainConfigs'[id] = chainConfigs[id] ]_vars

\* C34 witness: a malformed configuration for a configured chain was
\* refused and the entry and the connection of that chain are still there
C34_Witness ==
    /\ thrown = "Error"
    /\ HasConfig(Polygon)
    /\ chainConfigs[Polygon].sponsorAddress = "sponsorB"
    /\ providers[Polygon] = JsonRpcProvider("rpc1")

\* C35: sendTokenTransfer towards a chain that has no read connection
\* fails with an Error before any token read is started and before any
\* signature is asked for; when its parameters are otherwise valid the
\* message of the error names the chain whose connection is missing.
C35_NoConnectionFailsFirst ==
    \A c \in Calls :
       ( calls[c].kind = "sendTokenTransfer"
         /\ GetProvider(calls[c].chainAtStart) = NoProvider )
       => /\ calls[c].outcome = "Error"
          /\ calls[c].pc = "done"
          /\ calls[c].tokenReads = 0
          /\ calls[c].permitRequests = 0
          /\ calls[c].signRequests = 0
          /\ calls[c].httpRequests = 0
          /\ calls[c].asked = << >>
          /\ ( /\ \A a \in {calls[c].tokenParams.tokenAddress,
                            calls[c].tokenParams.recipient,
                            calls[c].tokenParams.userAddress,
                            calls[c].tokenParams.facilitatorAddress} :
                     isValidAddress(Text(a))
               /\ calls[c].tokenParams.amount > 0 )
             => /\ Includes(calls[c].errorMessage, "provider")
                /\ Includes(calls[c].errorMessage,
                            ToString(calls[c].chainAtStart))

\* C35 witness: a valid transfer towards the active chain, which has no
\* connection, was refused
C35_Witness ==
    \E c \in Calls :
       /\ calls[c].kind = "sendTokenTransfer"
       /\ calls[c].chainAtStart = Sepolia
       /\ GetProvider(Sepolia) = NoProvider
       /\ calls[c].errorMessage = NoProviderConfigured(Sepolia)
       /\ calls[c].outcome = "Error"

\* the classes of errors.ts
TypedErrors ==
    {"KalpRelayError", "WalletNotConnectedError", "SponsorFetchError",
     "SignatureError", "RelaySubmissionError", "ChainNotSupportedError",
     "RequestTimeoutError"}

\* C36: once the relay-authorization signature of an executeRelay call has
\* been obtained, a submission has been dispatched for the call or the call
\* has been rejected with a typed error, whatever the retry configuration
\* and whatever removeChainConfig did while the signature was awaited.
C36_SignatureNeverDropped ==
    \A c \in Calls :
       ( calls[c].kind = "executeRelay" /\ calls[c].signature # "" )
       => \/ calls[c].httpRequests >= 1
          \/ calls[c].outcome \in TypedErrors

\* C37: two sendTokenTransfer calls in flight together for the same token
\* and the same owner have not signed permits that carry the same nonce.
C37_OverlappingNoncesDiffer ==
    \A c1 \in DOMAIN calls, c2 \in DOMAIN calls :
       ( /\ c1 # c2
         /\ calls[c1].kind = "sendTokenTransfer"
         /\ calls[c2].kind = "sendTokenTransfer"
         /\ calls[c1].outcome = "pending"
         /\ calls[c2].outcome = "pending"
         /\ calls[c1].permitSignature # ""
         /\ calls[c2].permitSignature # ""
         /\ calls[c1].tokenParams.tokenAddress
               = calls[c2].tokenParams.tokenAddress
         /\ calls[c1].tokenParams.userAddress
               = calls[c2].tokenParams.userAddress )
       => calls[c1].permit.nonce # calls[c2].permit.nonce

\* C38: the connection cache stays consistent with the configuration map:
\* after any sequence of addChainConfig, removeChainConfig and setProvider
\* every chain id that has a cached connection has a configuration entry,
\* and the connection was created from the rpcUrl of that entry.
C38_CacheMatchesConfig ==
    \A id \in ChainIds :
       providers[id] # NoProvider
       => /\ HasConfig(id)
          /\ chainConfigs[id].rpcUrl # ""
          /\ providers[id] = JsonRpcProvider(chainConfigs[id].rpcUrl)

\* C40: executeRelay and sendTokenTransfer, at every one of their steps,
\* leave the active chain id, the configuration map, the connection cache
\* and the global defaults as they were.
C40_CallsLeaveCoreState ==
    [][ calls' # calls
        => UNCHANGED <<currentChainId, chainConfigs, providers, config>> ]_vars

\* C40 witness: a relay call towards a chain other than the active one has
\* resolved, and the active chain and both configurations are as constructed
C40_Witness ==
    \E c \in Calls :
       /\ calls[c].outcome = "resolved"
       /\ calls[c].targetChainId = Polygon
       /\ currentChainId = Sepolia
       /\ HasConfig(Polygon)

\* C39: every executeRelay call and every sendTokenTransfer call that has
\* been started settles in the end, provided that timers fire, even if the
\* signing backend, the token reads or the relay endpoint never answer.
C39_EveryCallSettles ==
    \A c \in Calls :
       (calls[c].outcome = "pending") ~> (calls[c].outcome # "pending")

====
